---- MODULE Spec2Model ----
(***************************************************************************)
(* A model of csvkit's csvsql utility (csvkit/utilities/csvsql.py,         *)
(* CSVSQL.main).  One run of the program is one behaviour: the state is    *)
(* the parsed arguments, main's local variables, the input file handles,   *)
(* the database connection and transaction, the output stream and a log    *)
(* of the calls main has made to its collaborators.                        *)
(*                                                                         *)
(* Text is modelled as a sequence of one-character strings so that         *)
(* str.split, os.path.split and os.path.splitext are computed as Python    *)
(* computes them.  An optional argument is a record [given, val]: None is  *)
(* [given |-> FALSE], and Python's truth test is Truthy.                   *)
(***************************************************************************)
EXTENDS Integers, Sequences, FiniteSets, TLC

(***************************************************************************)
(* Bounds of the model.                                                    *)
(***************************************************************************)
MaxFiles == 2
MaxNames == 2
MaxStatements == 2

(***************************************************************************)
(* Python values.                                                          *)
(***************************************************************************)
None == [given |-> FALSE, val |-> <<>>]

Some(s) == [given |-> TRUE, val |-> s]

Truthy(a) == a.given /\ a.val /= <<>>

\* A variant that stops at the first separator.
SplitFirstOnly(s, sep) ==
    IF \A k \in 1..Len(s) : s[k] /= sep
    THEN <<s>>
    ELSE LET j == CHOOSE k \in 1..Len(s) :
                      s[k] = sep /\ \A m \in 1..(k - 1) : s[m] /= sep
         IN  <<SubSeq(s, 1, j - 1)>>

RECURSIVE Split(_, _)
\* str.split(sep) for a one-character separator: the segments between
\* separators, empty segments included ("a;" gives ["a", ""]).
Split(s, sep) ==
    IF \A k \in 1..Len(s) : s[k] /= sep
    THEN <<s>>
    ELSE LET j == CHOOSE k \in 1..Len(s) :
                      s[k] = sep /\ \A m \in 1..(k - 1) : s[m] /= sep
         IN  <<SubSeq(s, 1, j - 1)>> \o Split(SubSeq(s, j + 1, Len(s)), sep)

RECURSIVE Join(_, _)
\* sep.join(list): how a list of names reaches the program as one argument.
Join(list, sep) ==
    IF list = <<>> THEN <<>>
    ELSE IF Len(list) = 1 THEN list[1]
    ELSE list[1] \o <<sep>> \o Join(Tail(list), sep)

\* str.rfind for one character: the last index of c in s, 0 when absent.
RFind(s, c) ==
    IF \E k \in 1..Len(s) : s[k] = c
    THEN CHOOSE k \in 1..Len(s) : s[k] = c /\ \A m \in (k + 1)..Len(s) : s[m] /= c
    ELSE 0

\* os.path.split(p)[1]: what follows the last "/".
Basename(p) == SubSeq(p, RFind(p, "/") + 1, Len(p))

\* os.path.splitext(p)[0]: p without its extension; the extension starts
\* at the last dot unless only dots precede it in the file name.
SplitextRoot(p) ==
    LET sepIndex == RFind(p, "/")
        dotIndex == RFind(p, ".")
    IN  IF dotIndex > sepIndex
           /\ \E k \in (sepIndex + 1)..(dotIndex - 1) : p[k] /= "."
        THEN SubSeq(p, 1, dotIndex - 1)
        ELSE p

StdinName == <<"s", "t", "d", "i", "n">>

StdinPath == <<"-">>

\* A variant that keeps the extension of the file name.
FallbackNameWithExtension(path) ==
    IF path = StdinPath THEN StdinName ELSE Basename(path)

\* The fallback table name of lines 87-91.
FallbackName(path) ==
    IF path = StdinPath THEN StdinName ELSE SplitextRoot(Basename(path))

(***************************************************************************)
(* The environment: the files a run can be given and what the inference    *)
(* collaborator (table.Table.from_csv) makes of each.  A table is a record *)
(* of its column names and its rows; a table with no columns is falsy.     *)
(***************************************************************************)
PathA == <<"a", ".", "c", "s", "v">>

PathB == <<"d", "/", "b", ".", "c", "s", "v">>

Paths == {StdinPath, PathA, PathB}

EmptyTable == [columns |-> <<>>, rows |-> <<>>]

\* from_csv, when it does not raise: the table inferred from each input.
\* a.csv has a header and two rows, standard input a header and no row,
\* and d/b.csv is empty.
from_csv(path) ==
    IF path = PathA THEN [columns |-> <<"c">>, rows |-> <<<<"1">>, <<"2">>>>]
    ELSE IF path = StdinPath THEN [columns |-> <<"c">>, rows |-> <<>>]
    ELSE EmptyTable

\* bool(csv_table): Table is a list of columns.
TableTruthy(t) == t.columns /= <<>>

count_rows(t) == Len(t.rows)

\* [dict(zip(headers, row)) for row in csv_table.to_rows()]
InsertRecords(t) ==
    [r \in 1..Len(t.rows) |->
        [h \in {t.columns[k] : k \in 1..Len(t.columns)} |->
            t.rows[r][CHOOSE k \in 1..Len(t.columns) : t.columns[k] = h]]]

(***************************************************************************)
(* The database: what connection.execute returns for a statement text     *)
(* when it does not raise.  "s" stands for the text SELECT 1 and "u" for   *)
(* a statement that returns no rows.  A result that returns no rows has    *)
(* no metadata, and so has the initial None of line 134.                   *)
(***************************************************************************)
NoResult == [metadata |-> FALSE, keys |-> <<>>, rows |-> <<>>]

ExecResult(q) ==
    IF q = <<"s">>
    THEN [metadata |-> TRUE, keys |-> <<"1">>, rows |-> <<<<1>>>>]
    ELSE NoResult

\* The csv writer writes each value as its text.
ToText(v) == IF v = 1 THEN "1" ELSE "?"

RowText(row) == [k \in 1..Len(row) |-> ToText(row[k])]

EphemeralDb == <<"sqlite:///:memory:">>

NamedDb == <<"postgresql:///db">>

Dialect == <<"postgresql">>

(***************************************************************************)
(* The state of one run.                                                   *)
(***************************************************************************)
VARIABLES
    args,               \* self.args: the parsed command line
    given_names,        \* the names the user listed in --tables, in order
    pc,                 \* main's position
    status,             \* "running", "ok" or the error that ended the run
    input_files,        \* self.input_files: a handle per opened path
    closed,             \* the handles that have been closed
    table_names,        \* the shrinking list of explicit names
    connection_string,  \* the local of lines 45 and 61
    do_insert,          \* the local of lines 46 and 62
    connection,         \* "none", "open" or "closed"
    transaction,        \* "none", "active" or "committed"
    f,                  \* index of the input the loop of line 82 is at
    table_name,         \* the name resolved for input f
    csv_table,          \* the table inferred from input f
    queries,            \* the statements of line 133 still to execute
    rows,               \* the result of the last executed statement
    output,             \* what has been written to self.output_file
    log                 \* the calls made so far, in order

vars == <<args, given_names, pc, status, input_files, closed, table_names,
          connection_string, do_insert, connection, transaction, f,
          table_name, csv_table, queries, rows, output, log>>

\* The explicit names a run is given: the first names of this list.
NamePool == <<<<"x">>, <<"y">>, <<"z">>, <<"w">>>>

\* The statement texts a query is made of; the empty text is what lies
\* between two ";" or after the last one.
Statements == {<<>>, <<"s">>, <<"u">>}

SeqsUpTo(S, lo, hi) == UNION {[1..n -> S] : n \in lo..hi}

\* Standard input can be one of the inputs, once.
AtMostOneStdin(p) == Cardinality({i \in DOMAIN p : p[i] = StdinPath}) <= 1

\* sys.stdin is handle 0; the handle opened for the i-th path is i.
StdinHandle == 0

Handle(i) == IF args.input_paths[i] = StdinPath THEN StdinHandle ELSE i

Event(op, src, ok, arg) == [op |-> op, src |-> src, ok |-> ok, arg |-> arg]

N == Len(args.input_paths)

Init ==
    /\ given_names \in {SubSeq(NamePool, 1, m) : m \in 0..MaxNames}
    /\ args \in [input_paths : {p \in SeqsUpTo(Paths, 1, MaxFiles) : AtMostOneStdin(p)},
                 dialect : {None, Some(Dialect)},
                 connection_string : {None, Some(NamedDb)},
                 query : {None} \cup {Some(Join(q, ";")) :
                                          q \in SeqsUpTo(Statements, 1, MaxStatements)},
                 insert : BOOLEAN,
                 no_create : BOOLEAN,
                 table_names : {IF given_names = <<>> THEN None
                                ELSE Some(Join(given_names, ","))}]
    /\ pc = "open_inputs"
    /\ status = "running"
    /\ input_files = <<>>
    /\ closed = {}
    /\ table_names = <<>>
    /\ connection_string = args.connection_string
    /\ do_insert = args.insert
    /\ connection = "none"
    /\ transaction = "none"
    /\ f = 0
    /\ table_name = <<>>
    /\ csv_table = EmptyTable
    /\ queries = <<>>
    /\ rows = NoResult
    /\ output = <<>>
    /\ log = <<>>

\* How an uncaught exception or argparser.error ends the run.
Exit(error) == pc' = "exit" /\ status' = error

\* Lines 49-52: the loop that opens every input path, in order.
OpenInputFiles ==
    /\ pc = "open_inputs"
    /\ input_files' = [i \in 1..N |-> Handle(i)]
    /\ log' = [i \in 1..N |-> Event("open_input", i, TRUE, <<>>)]
    /\ pc' = "parse"
    /\ UNCHANGED <<args, given_names, status, closed, table_names,
                   connection_string, do_insert, connection, transaction, f,
                   table_name, csv_table, queries, rows, output>>

\* Lines 54-62: the explicit names are split out of --tables, and a query
\* without --db substitutes the in-memory database and forces insert on.
\* A variant without the substitution of the in-memory database.
ParseOptionsNoSubstitution ==
    /\ pc = "parse"
    /\ table_names' = IF Truthy(args.table_names)
                      THEN Split(args.table_names.val, ",")
                      ELSE <<>>
    /\ pc' = "validate"
    /\ UNCHANGED <<args, given_names, status, input_files, closed,
                   connection_string, do_insert, connection, transaction, f,
                   table_name, csv_table, queries, rows, output, log>>

ParseOptions ==
    /\ pc = "parse"
    /\ table_names' = IF Truthy(args.table_names)
                      THEN Split(args.table_names.val, ",")
                      ELSE <<>>
    /\ IF Truthy(args.query) /\ ~Truthy(connection_string)
       THEN connection_string' = Some(EphemeralDb) /\ do_insert' = TRUE
       ELSE UNCHANGED <<connection_string, do_insert>>
    /\ pc' = "validate"
    /\ UNCHANGED <<args, given_names, status, input_files, closed, connection,
                   transaction, f, table_name, csv_table, queries, rows,
                   output, log>>

\* Variants of the validation that each leave out one of the three checks.
ValidationErrorNoDialect ==
    IF do_insert /\ ~Truthy(connection_string) THEN "insert"
    ELSE IF args.no_create /\ ~do_insert THEN "no_create"
    ELSE ""

ValidationErrorNoInsert ==
    IF Truthy(args.dialect) /\ Truthy(connection_string) THEN "dialect"
    ELSE IF args.no_create /\ ~do_insert THEN "no_create"
    ELSE ""

ValidationErrorNoCreate ==
    IF Truthy(args.dialect) /\ Truthy(connection_string) THEN "dialect"
    ELSE IF do_insert /\ ~Truthy(connection_string) THEN "insert"
    ELSE ""

\* Lines 64-71: the first of the three checks that fails, "" when none does.
ValidationError ==
    IF Truthy(args.dialect) /\ Truthy(connection_string) THEN "dialect"
    ELSE IF do_insert /\ ~Truthy(connection_string) THEN "insert"
    ELSE IF args.no_create /\ ~do_insert THEN "no_create"
    ELSE ""

\* A variant in which the error is reported but the run goes on.
ValidateReportsOnly ==
    /\ pc = "validate"
    /\ status' = IF ValidationError /= "" THEN "ConfigurationError" ELSE status
    /\ pc' = IF Truthy(connection_string) THEN "connect" ELSE "loop"
    /\ UNCHANGED <<args, given_names, input_files, closed, table_names,
                   connection_string, do_insert, connection, transaction, f,
                   table_name, csv_table, queries, rows, output, log>>

\* Lines 64-71: argparser.error ends the run on an invalid combination.
Validate ==
    /\ pc = "validate"
    /\ IF ValidationError /= ""
       THEN Exit("ConfigurationError")
       ELSE /\ pc' = IF Truthy(connection_string) THEN "connect" ELSE "loop"
            /\ UNCHANGED status
    /\ UNCHANGED <<args, given_names, input_files, closed, table_names,
                   connection_string, do_insert, connection, transaction, f,
                   table_name, csv_table, queries, rows, output, log>>

\* A variant in which a failure to connect does not end the run.
ConnectFailureIgnored ==
    /\ pc = "connect"
    /\ \E ok \in BOOLEAN :
        /\ log' = Append(log, Event("connect", 0, ok, connection_string.val))
        /\ IF ok
           THEN connection' = "open" /\ transaction' = "active"
           ELSE UNCHANGED <<connection, transaction>>
    /\ pc' = "loop"
    /\ UNCHANGED <<args, given_names, status, input_files, closed, table_names,
                   connection_string, do_insert, f, table_name, csv_table,
                   queries, rows, output>>

\* Lines 74-80: get_connection, engine.connect and connection.begin; any of
\* them can raise, and nothing catches it.
Connect ==
    /\ pc = "connect"
    /\ \E ok \in BOOLEAN :
        /\ log' = Append(log, Event("connect", 0, ok, connection_string.val))
        /\ IF ok
           THEN /\ connection' = "open"
                /\ transaction' = "active"
                /\ pc' = "loop"
                /\ UNCHANGED status
           ELSE /\ Exit("ConnectionError")
                /\ UNCHANGED <<connection, transaction>>
    /\ UNCHANGED <<args, given_names, input_files, closed, table_names,
                   connection_string, do_insert, f, table_name, csv_table,
                   queries, rows, output>>

\* A variant that does not test the table for emptiness.
\* A variant that renders the statement also when a connection is open.
BranchAlwaysStatic(t) == IF ~TableTruthy(t) THEN "loop" ELSE "static"

BranchIgnoringEmpty(t) ==
    IF Truthy(connection_string) THEN "live" ELSE "static"

\* Lines 105-106 and 125-126: an empty table is passed over; otherwise the
\* connection string selects live or static processing.
BranchAfterClose(t) ==
    IF ~TableTruthy(t) THEN "loop"
    ELSE IF Truthy(connection_string) THEN "live"
    ELSE "static"

\* A variant that closes the input before the one that was read.
CloseFilePrevious(i) == IF i > 1 THEN closed \cup {input_files[i - 1]} ELSE closed

\* Line 103: f.close() on the handle of input i.
CloseFile(i) == closed \cup {input_files[i]}

\* Lines 82-106: the loop takes the next input and resolves its table name,
\* popping the next explicit name when one is left; from_csv reads the
\* input, which is then closed, and the branch is taken.  from_csv can
\* raise on malformed input, and nothing catches it: the run ends with the
\* input left open.
ReadInput ==
    /\ pc = "loop"
    /\ f < N
    /\ f' = f + 1
    /\ IF table_names /= <<>>
       THEN /\ table_name' = Head(table_names)
            /\ table_names' = Tail(table_names)
       ELSE /\ table_name' = FallbackName(args.input_paths[f'])
            /\ UNCHANGED table_names
    /\ \E wellformed \in BOOLEAN :
        IF wellformed
        THEN /\ csv_table' = from_csv(args.input_paths[f'])
             /\ closed' = CloseFile(f')
             /\ log' = log \o <<Event("resolve", f', TRUE, table_name'),
                                Event("read", f', TRUE, <<>>),
                                Event("close_input", f', TRUE, <<>>)>>
             /\ pc' = BranchAfterClose(csv_table')
             /\ UNCHANGED status
        ELSE /\ log' = log \o <<Event("resolve", f', TRUE, table_name'),
                                Event("read", f', FALSE, <<>>)>>
             /\ Exit("DecodingError")
             /\ UNCHANGED <<csv_table, closed>>
    /\ UNCHANGED <<args, given_names, input_files, connection_string,
                   do_insert, connection, transaction, queries, rows, output>>

\* A variant that looks at the --insert flag instead of do_insert.
\* A variant that inserts also when the table has no rows.
InsertDueEvenIfEmpty == do_insert

\* A variant that inserts whenever a query is given.
InsertDueWhenQuery ==
    (do_insert \/ Truthy(args.query)) /\ count_rows(csv_table) > 0

InsertDueByFlag == args.insert /\ count_rows(csv_table) > 0

\* Line 120: whether the insert of lines 121-123 is performed.
InsertDue == do_insert /\ count_rows(csv_table) > 0

\* A variant in which a failed insert is caught and the loop goes on.
MaterializeTableInsertCaught ==
    /\ pc = "live"
    /\ \E create_ok, insert_ok \in BOOLEAN :
        LET created == args.no_create \/ create_ok
            create == IF args.no_create THEN <<>>
                      ELSE <<Event("create", f, create_ok, table_name)>>
            insert == IF created /\ InsertDue
                      THEN <<Event("insert", f, insert_ok, InsertRecords(csv_table))>>
                      ELSE <<>>
        IN  /\ log' = log \o create \o insert
            /\ IF created
               THEN pc' = "loop" /\ UNCHANGED status
               ELSE Exit("ExecutionError")
    /\ UNCHANGED <<args, given_names, input_files, closed, table_names,
                   connection_string, do_insert, connection, transaction, f,
                   table_name, csv_table, queries, rows, output>>

\* Lines 107-123: make_table; sql_table.create() unless --no-create; then,
\* when insert is in effect and the table has rows, one bulk insert of all
\* rows as records keyed by column.  create and execute can raise, and
\* nothing catches it.
MaterializeTable ==
    /\ pc = "live"
    /\ \E create_ok, insert_ok \in BOOLEAN :
        LET created == args.no_create \/ create_ok
            create == IF args.no_create THEN <<>>
                      ELSE <<Event("create", f, create_ok, table_name)>>
            insert == IF created /\ InsertDue
                      THEN <<Event("insert", f, insert_ok, InsertRecords(csv_table))>>
                      ELSE <<>>
        IN  /\ log' = log \o create \o insert
            /\ IF created /\ (InsertDue => insert_ok)
               THEN pc' = "loop" /\ UNCHANGED status
               ELSE Exit("ExecutionError")
    /\ UNCHANGED <<args, given_names, input_files, closed, table_names,
                   connection_string, do_insert, connection, transaction, f,
                   table_name, csv_table, queries, rows, output>>

\* Lines 125-128: the CREATE TABLE statement of the table is written.
WriteStatement ==
    /\ pc = "static"
    /\ output' = Append(output, [kind |-> "ddl", src |-> f, text |-> table_name])
    /\ log' = Append(log, Event("write_statement", f, TRUE, table_name))
    /\ pc' = "loop"
    /\ UNCHANGED <<args, given_names, status, input_files, closed, table_names,
                   connection_string, do_insert, connection, transaction, f,
                   table_name, csv_table, queries, rows>>

\* Lines 130-134: after the last input; the query is split on ";".
EndLoop ==
    /\ pc = "loop"
    /\ f = N
    /\ IF ~Truthy(connection_string)
       THEN /\ pc' = "exit"
            /\ status' = "ok"
            /\ UNCHANGED <<queries, rows>>
       ELSE IF Truthy(args.query)
       THEN /\ queries' = Split(args.query.val, ";")
            /\ rows' = NoResult
            /\ pc' = "queries"
            /\ UNCHANGED status
       ELSE /\ pc' = "commit"
            /\ UNCHANGED <<status, queries, rows>>
    /\ UNCHANGED <<args, given_names, input_files, closed, table_names,
                   connection_string, do_insert, connection, transaction, f,
                   table_name, csv_table, output, log>>

\* Lines 136-138: one iteration of the loop over the split statements; an
\* empty one is passed over, the others are executed on the connection,
\* where execute can raise, and nothing catches it.
\* A variant in which a statement without rows leaves the earlier result.
ExecuteQueryKeepsRows ==
    /\ pc = "queries"
    /\ queries /= <<>>
    /\ LET q == Head(queries) IN
        /\ queries' = Tail(queries)
        /\ IF q = <<>>
           THEN UNCHANGED <<rows, log, pc, status>>
           ELSE \E ok \in BOOLEAN :
                /\ log' = Append(log, Event("execute", 0, ok, q))
                /\ IF ok
                   THEN /\ rows' = IF ExecResult(q).metadata
                                   THEN ExecResult(q) ELSE rows
                        /\ UNCHANGED <<pc, status>>
                   ELSE /\ Exit("ExecutionError")
                        /\ UNCHANGED rows
    /\ UNCHANGED <<args, given_names, input_files, closed, table_names,
                   connection_string, do_insert, connection, transaction, f,
                   table_name, csv_table, output>>

ExecuteQuery ==
    /\ pc = "queries"
    /\ queries /= <<>>
    /\ LET q == Head(queries) IN
        /\ queries' = Tail(queries)
        /\ IF q = <<>>
           THEN UNCHANGED <<rows, log, pc, status>>
           ELSE \E ok \in BOOLEAN :
                /\ log' = Append(log, Event("execute", 0, ok, q))
                /\ IF ok
                   THEN /\ rows' = ExecResult(q)
                        /\ UNCHANGED <<pc, status>>
                   ELSE /\ Exit("ExecutionError")
                        /\ UNCHANGED rows
    /\ UNCHANGED <<args, given_names, input_files, closed, table_names,
                   connection_string, do_insert, connection, transaction, f,
                   table_name, csv_table, output>>

\* A variant in which the AttributeError is not caught.
WriteResultRaises ==
    /\ pc = "queries"
    /\ queries = <<>>
    /\ IF rows.metadata
       THEN /\ output' = output
                  \o <<[kind |-> "row", src |-> 0, text |-> rows.keys]>>
                  \o [k \in 1..Len(rows.rows) |->
                        [kind |-> "row", src |-> 0, text |-> RowText(rows.rows[k])]]
            /\ log' = Append(log, Event("write_result", 0, TRUE, <<>>))
            /\ pc' = "commit"
            /\ UNCHANGED status
       ELSE /\ Exit("AttributeError")
            /\ UNCHANGED <<output, log>>
    /\ UNCHANGED <<args, given_names, input_files, closed, table_names,
                   connection_string, do_insert, connection, transaction, f,
                   table_name, csv_table, queries, rows>>

\* Lines 140-147: the header and the rows of the last result are written;
\* the AttributeError of a result without metadata is swallowed.
WriteResult ==
    /\ pc = "queries"
    /\ queries = <<>>
    /\ IF rows.metadata
       THEN /\ output' = output
                  \o <<[kind |-> "row", src |-> 0, text |-> rows.keys]>>
                  \o [k \in 1..Len(rows.rows) |->
                        [kind |-> "row", src |-> 0, text |-> RowText(rows.rows[k])]]
            /\ log' = Append(log, Event("write_result", 0, TRUE, <<>>))
       ELSE UNCHANGED <<output, log>>
    /\ pc' = "commit"
    /\ UNCHANGED <<args, given_names, status, input_files, closed, table_names,
                   connection_string, do_insert, connection, transaction, f,
                   table_name, csv_table, queries, rows>>

\* Line 149: transaction.commit(); a failure surfaces to the caller.
Commit ==
    /\ pc = "commit"
    /\ \E ok \in BOOLEAN :
        /\ log' = Append(log, Event("commit", 0, ok, <<>>))
        /\ IF ok
           THEN /\ transaction' = "committed"
                /\ pc' = "close"
                /\ UNCHANGED status
           ELSE /\ Exit("ExecutionError")
                /\ UNCHANGED transaction
    /\ UNCHANGED <<args, given_names, input_files, closed, table_names,
                   connection_string, do_insert, connection, f, table_name,
                   csv_table, queries, rows, output>>

\* A variant that ends the run without closing the connection.
CloseConnectionForgotten ==
    /\ pc = "close"
    /\ pc' = "exit"
    /\ status' = "ok"
    /\ UNCHANGED <<args, given_names, input_files, closed, table_names,
                   connection_string, do_insert, connection, transaction, f,
                   table_name, csv_table, queries, rows, output, log>>

\* Line 150: connection.close() ends a successful live run.
CloseConnection ==
    /\ pc = "close"
    /\ connection' = "closed"
    /\ log' = Append(log, Event("close", 0, TRUE, <<>>))
    /\ pc' = "exit"
    /\ status' = "ok"
    /\ UNCHANGED <<args, given_names, input_files, closed, table_names,
                   connection_string, do_insert, transaction, f, table_name,
                   csv_table, queries, rows, output>>

Next ==
    \/ OpenInputFiles
    \/ ParseOptions
    \/ Validate
    \/ Connect
    \/ ReadInput
    \/ MaterializeTable
    \/ WriteStatement
    \/ EndLoop
    \/ ExecuteQuery
    \/ WriteResult
    \/ Commit
    \/ CloseConnection

Spec == Init /\ [][Next]_vars

(***************************************************************************)
(* Vocabulary of the properties.                                           *)
(***************************************************************************)
\* The positions in the log of the calls of one kind.
Calls(op) == {k \in DOMAIN log : log[k].op = op}

CallsFor(op, i) == {k \in Calls(op) : log[k].src = i}

DbOps == {"connect", "create", "insert", "execute", "commit", "close"}

StatementOps == {"create", "insert", "execute"}

\* The handles of real files (not standard input) that have been opened.
OpenedFiles == {i \in DOMAIN input_files : input_files[i] /= StdinHandle}

\* The run has got past the option validator.
PastValidation ==
    pc \notin {"open_inputs", "parse", "validate"} /\ status /= "ConfigurationError"

\* The inputs that are not empty: a.csv and standard input.
NonEmptySources == {i \in 1..N : args.input_paths[i] \in {PathA, StdinPath}}

\* The inputs that have at least one row: a.csv.
SourcesWithRows == {i \in 1..N : args.input_paths[i] = PathA}

\* The statements of the query: its maximal runs of characters other
\* than ";", counted without splitting.
StatementCount(q) ==
    Cardinality({k \in 1..Len(q) : q[k] /= ";" /\ (k = 1 \/ q[k - 1] = ";")})

\* C1: commit is invoked at most once, and only after every input source
\* has been processed and every statement of the query has been executed;
\* in a run in which a create, insert or query statement has failed, commit
\* is never invoked, and no run invokes a rollback.
C1_NoPartialCommit ==
    /\ Cardinality(Calls("commit")) <= 1
    /\ \A k \in Calls("commit") :
        /\ f = N
        /\ \A i \in 1..N : \E j \in CallsFor("close_input", i) : j < k
        /\ \A j \in DOMAIN log :
               log[j].op \in StatementOps \cup {"resolve", "read", "close_input"}
               => j < k
        /\ Truthy(args.query)
           => Cardinality(Calls("execute")) = StatementCount(args.query.val)
    /\ (\E j \in DOMAIN log : log[j].op \in StatementOps /\ ~log[j].ok)
       => Calls("commit") = {} /\ transaction /= "committed"
    /\ Calls("rollback") = {}
    /\ transaction = "committed" <=> \E k \in Calls("commit") : log[k].ok

\* A run over two inputs that created a table, inserted rows, executed a
\* statement and committed.
C1_Witness ==
    /\ status = "ok"
    /\ N = 2
    /\ Calls("create") /= {}
    /\ Calls("insert") /= {}
    /\ Calls("execute") /= {}
    /\ transaction = "committed"

\* C2: with a connection target in effect the connection and transaction
\* are opened exactly once, before any input is read; when opening fails
\* the run ends with no input read and nothing written.
C2_ConnectBeforeRead ==
    /\ Cardinality(Calls("connect")) <= 1
    /\ (PastValidation /\ pc /= "connect" /\ Truthy(connection_string))
       => Cardinality(Calls("connect")) = 1
    /\ \A k \in Calls("read") :
           Truthy(connection_string)
           => \E j \in Calls("connect") : j < k /\ log[j].ok
    /\ (Calls("read") /= {} /\ Truthy(connection_string))
       => connection /= "none" /\ transaction /= "none"
    /\ (\E j \in Calls("connect") : ~log[j].ok)
       => /\ pc = "exit"
          /\ status = "ConnectionError"
          /\ Calls("read") = {}
          /\ output = <<>>

\* A live run that has read an input after opening its connection.
C2_Witness ==
    /\ Truthy(connection_string)
    /\ Calls("read") /= {}
    /\ connection = "open"
    /\ transaction = "active"

RejectedOrNotYetValidated ==
    \/ pc \in {"open_inputs", "parse", "validate"}
    \/ pc = "exit" /\ status = "ConfigurationError"

NothingProcessed == Calls("resolve") = {} /\ Calls("read") = {}

C6_DialectExcludesDb ==
    (Truthy(args.dialect) /\ Truthy(args.connection_string))
    => /\ RejectedOrNotYetValidated
       /\ \A k \in DOMAIN log : log[k].op \notin DbOps \cup {"write_statement"}
       /\ connection = "none"
       /\ output = <<>>

\* A run rejected for --dialect with --db, neither --insert nor --no-create
\* being given.
C6_Witness ==
    /\ status = "ConfigurationError"
    /\ Truthy(args.dialect)
    /\ Truthy(args.connection_string)
    /\ ~args.insert
    /\ ~args.no_create

\* The file name stems of the files of the environment, written out.
ExpectedFallback(path) ==
    IF path = StdinPath THEN <<"s", "t", "d", "i", "n">>
    ELSE IF path = PathA THEN <<"a">>
    ELSE <<"b">>

\* C7: with M explicit names for N inputs (M <= N) the k-th input gets the
\* k-th explicit name for k <= M, whatever became of the earlier inputs,
\* and every later input gets its file name stem, or "stdin"; each input is
\* named once, in input order.
C7_NamesInOrder ==
    Len(given_names) <= N
    => /\ \A k \in Calls("resolve") :
            log[k].arg = IF log[k].src <= Len(given_names)
                         THEN given_names[log[k].src]
                         ELSE ExpectedFallback(args.input_paths[log[k].src])
       /\ \A i \in 1..N : Cardinality(CallsFor("resolve", i)) = IF i <= f THEN 1 ELSE 0
       /\ \A j, k \in Calls("resolve") : j < k => log[j].src < log[k].src

\* Inputs a.csv and d/b.csv with --tables x: the names are x and b.
C7_Witness ==
    /\ args.input_paths = <<PathA, PathB>>
    /\ given_names = <<<<"x">>>>
    /\ \E j \in CallsFor("resolve", 1) : log[j].arg = <<"x">>
    /\ \E k \in CallsFor("resolve", 2) : log[k].arg = <<"b">>

IsNonEmptySource(i) == i \in NonEmptySources

\* The name input i was given.
AssignedName(i) == log[CHOOSE k \in CallsFor("resolve", i) : TRUE].arg

\* One statement per non-empty input, in input order.
ExpectedStatements ==
    LET idx == SelectSeq([i \in 1..N |-> i], IsNonEmptySource)
    IN  [k \in 1..Len(idx) |->
            [kind |-> "ddl", src |-> idx[k], text |-> AssignedName(idx[k])]]

\* C8: in static mode a completed run has written exactly one CREATE
\* statement per non-empty input, in input order, and nothing for an empty
\* input; no database operation occurs in static mode.
C8_StaticOutput ==
    (PastValidation /\ ~Truthy(connection_string))
    => /\ status = "ok" => output = ExpectedStatements
       /\ \A k \in DOMAIN log : log[k].op \notin DbOps
       /\ connection = "none"
       /\ transaction = "none"

\* A completed static run over an empty file and a file with rows: one
\* statement, for the second.
C8_Witness ==
    /\ status = "ok"
    /\ ~Truthy(connection_string)
    /\ args.input_paths = <<PathB, PathA>>
    /\ Len(output) = 1
    /\ output[1].src = 2

\* C9 as stated: when the inference collaborator fails on a malformed input
\* that input is skipped, and the run ends with every other non-empty input
\* processed and, in live mode, with a commit.
C9_Original ==
    (/\ pc = "exit"
     /\ \E k \in Calls("read") : ~log[k].ok
     /\ status \notin {"ConfigurationError", "ConnectionError", "ExecutionError"})
    => /\ status = "ok"
       /\ \A i \in NonEmptySources :
            IF Truthy(connection_string)
            THEN args.no_create \/ CallsFor("create", i) /= {}
            ELSE CallsFor("write_statement", i) /= {}
       /\ Truthy(connection_string) => Calls("commit") /= {}

IsDdl(line) == line.kind = "ddl"

SelectOneOutput == <<[kind |-> "row", src |-> 0, text |-> <<"1">>],
                     [kind |-> "row", src |-> 0, text |-> <<"1">>]>>

\* What C10 says of every executed statement: the rows of every input
\* that has rows have been inserted, and the tables have been created.
RowsInsertedBefore(k) ==
    \A i \in SourcesWithRows : \E j \in CallsFor("insert", i) : j < k /\ log[j].ok

TablesCreatedBefore(k) ==
    \A i \in NonEmptySources : \E j \in CallsFor("create", i) : j < k /\ log[j].ok

EphemeralRun ==
    /\ connection_string = Some(EphemeralDb)
    /\ do_insert
    /\ SelectSeq(output, IsDdl) = <<>>
    /\ Calls("write_statement") = {}
    /\ (args.query.val = <<"s", ";">> /\ status = "ok") => output = SelectOneOutput

\* C10 as stated: a non-empty query without --db runs on the in-memory
\* database with insert forced on; every non-empty input has its table
\* created and its rows inserted before the first statement is executed;
\* no DDL is written; "SELECT 1;" writes the header and the one row.
C10_Original ==
    (Truthy(args.query) /\ ~Truthy(args.connection_string) /\ PastValidation)
    => /\ EphemeralRun
       /\ \A k \in Calls("execute") : TablesCreatedBefore(k) /\ RowsInsertedBefore(k)

\* C10 amended: as stated, except that the tables are created only when
\* --no-create is not given.
C10_EphemeralQuery ==
    (Truthy(args.query) /\ ~Truthy(args.connection_string) /\ PastValidation)
    => /\ EphemeralRun
       /\ \A k \in Calls("execute") :
            /\ ~args.no_create => TablesCreatedBefore(k)
            /\ RowsInsertedBefore(k)

\* "SELECT 1;" over a.csv without --db and without --insert: the table was
\* created, its rows inserted and the two lines written.
C10_Witness ==
    /\ status = "ok"
    /\ ~args.connection_string.given
    /\ ~args.insert
    /\ args.query = Some(<<"s", ";">>)
    /\ args.input_paths = <<PathA>>
    /\ CallsFor("create", 1) /= {}
    /\ CallsFor("insert", 1) /= {}
    /\ output = SelectOneOutput

(***************************************************************************)
(* The query runner.                                                       *)
(***************************************************************************)
\* Where the statements of a query text start: at a character other than
\* ";" that is the first or follows a ";".
RunStarts(q) == {k \in 1..Len(q) : q[k] /= ";" /\ (k = 1 \/ q[k - 1] = ";")}

\* Where the statement that starts at k ends.
RunEnd(q, k) ==
    CHOOSE m \in k..Len(q) :
        /\ \A j \in k..m : q[j] /= ";"
        /\ m = Len(q) \/ q[m + 1] = ";"

\* The non-empty statements of a query text, left to right, found by
\* scanning the text.
QueryStatements(q) ==
    LET S == RunStarts(q)
    IN  [n \in 1..Cardinality(S) |->
            LET k == CHOOSE k \in S : Cardinality({j \in S : j < k}) = n - 1
            IN  SubSeq(q, k, RunEnd(q, k))]

IsExecute(e) == e.op = "execute"

\* The events of one operation, in the order of the log.
Events(op) == SelectSeq(log, LAMBDA e : e.op = op)

\* The run is past validation with a connection string in effect.
LiveRun == Truthy(connection_string) /\ PastValidation

\* The statements executed so far, in order.
Executed == SelectSeq(log, IsExecute)

\* The query loop has been left without an error.
QueriesDone ==
    /\ Truthy(args.query)
    /\ Truthy(connection_string)
    /\ pc \in {"commit", "close"} \/ status = "ok" \/ Calls("commit") /= {}

\* The events of the input loop and what precedes it.
IsInputEvent(e) == e.op \notin {"execute", "write_result", "commit", "close"}

\* The events that follow the query loop.
IsClosingEvent(e) == e.op \in {"write_result", "commit", "close"}

IsWriteResult(e) == e.op = "write_result"

\* C11: in live mode the non-empty statements of the query are executed
\* once each, left to right, on the one connection and in the one
\* transaction of the run, after every input has been processed; at most
\* one result is written, and only after the last statement.
C11_QueriesInOrder ==
    LiveRun =>
    LET executed == Executed
        closing  == SelectSeq(log, IsClosingEvent)
    IN  /\ log = SelectSeq(log, IsInputEvent) \o executed \o closing
        /\ SelectSeq(closing, IsWriteResult)
              \in {<<>>, <<Event("write_result", 0, TRUE, <<>>)>>}
        /\ (closing /= <<>> /\ ~IsWriteResult(closing[1]))
           => SelectSeq(closing, IsWriteResult) = <<>>
        /\ executed /= <<>>
           => LET statements == QueryStatements(args.query.val)
              IN  /\ Truthy(args.query)
                  /\ f = N
                  /\ Len(Events("connect")) = 1
                  /\ Len(executed) <= Len(statements)
                  /\ \A n \in 1..Len(executed) :
                        /\ executed[n].arg = statements[n]
                        /\ n < Len(executed) => executed[n].ok
        /\ QueriesDone
           => /\ Len(executed) = Len(QueryStatements(args.query.val))
              /\ \A n \in 1..Len(executed) : executed[n].ok
        /\ pc = "queries" => connection = "open" /\ transaction = "active"

\* A completed run of "u;s" over a.csv: both statements were executed, in
\* that order, after the table was created.
C11_Witness ==
    /\ status = "ok"
    /\ args.query = Some(<<"u", ";", "s">>)
    /\ args.input_paths = <<PathA>>
    /\ Len(Executed) = 2
    /\ Executed[1].arg = <<"u">>
    /\ Executed[2].arg = <<"s">>
    /\ Calls("create") /= {}

IsRow(line) == line.kind = "row"

\* No statement that returns rows has been executed.
NoResultBearing == \A n \in 1..Len(Executed) : Executed[n].arg /= <<"s">>

\* C12: when no executed statement returns rows (also when the query has
\* no statement at all, as ";") no result is written and the run does not
\* fail for it: it ends in an error only when a call to the database has
\* failed, and otherwise commits and closes the connection.
C12_NoResultNoError ==
    (Truthy(args.query) /\ LiveRun /\ NoResultBearing)
    => /\ output = <<>>
       /\ Events("write_result") = <<>>
       /\ (pc = "exit" /\ status /= "ok") => ~log[Len(log)].ok
       /\ (pc = "queries" /\ queries = <<>>) => status = "running"
       /\ status = "ok"
          => /\ transaction = "committed"
             /\ connection = "closed"
             /\ Events("commit") = <<Event("commit", 0, TRUE, <<>>)>>
             /\ Events("close") = <<Event("close", 0, TRUE, <<>>)>>

\* A completed run of the query ";" over a.csv: nothing executed, nothing
\* written, the transaction committed and the connection closed.
C12_Witness ==
    /\ status = "ok"
    /\ args.query = Some(<<";">>)
    /\ args.input_paths = <<PathA>>
    /\ Executed = <<>>
    /\ output = <<>>
    /\ transaction = "committed"
    /\ connection = "closed"

(***************************************************************************)
(* Input handles.                                                          *)
(***************************************************************************)
\* The handles of the input sources that are open and not yet closed.
OpenHandles == {input_files[i] : i \in DOMAIN input_files} \ closed

\* C13: at most one of the input sources is open in every reachable
\* state; a source is not opened before the previous one has been closed.
C13_Original == Cardinality(OpenHandles) <= 1

(***************************************************************************)
(* Release of the connection, and the statements issued per source.        *)
(***************************************************************************)
\* C14: a successful live run releases its connection and transaction
\* exactly once at the end: one connect, one commit, then one close, with
\* every create, insert and execute before the commit and nothing after
\* the close.
C14_ReleasedOnce ==
    LiveRun =>
    LET connects == Events("connect")
        commits  == Events("commit")
        closes   == Events("close")
        last     == Len(log)
    IN  /\ Len(connects) <= 1
        /\ Len(commits) <= 1
        /\ Len(closes) <= 1
        /\ transaction = "committed" <=> (commits /= <<>> /\ commits[1].ok)
        /\ connection = "closed" <=> closes /= <<>>
        /\ closes /= <<>>
           => /\ status = "ok"
              /\ log[last].op = "close"
              /\ log[last - 1].op = "commit"
              /\ log[last - 1].ok
        /\ commits /= <<>>
           => /\ log[last - Len(closes)].op = "commit"
              /\ Len(connects) = 1
              /\ connects[1].ok
        /\ status = "ok"
           => /\ Len(connects) = 1
              /\ Len(commits) = 1
              /\ Len(closes) = 1
              /\ SelectSeq(log, LAMBDA e : e.op \in DbOps)[1].op = "connect"

\* A successful live run over two inputs with a query of two statements:
\* several creates and executes, one commit, one close.
C14_Witness ==
    /\ status = "ok"
    /\ N = 2
    /\ Cardinality(Calls("create")) = 2
    /\ Cardinality(Calls("execute")) = 2
    /\ Cardinality(Calls("commit")) = 1
    /\ log[Len(log)].op = "close"

\* The records of a.csv, keyed by column name.
RecordsOfA == <<[c |-> "1"], [c |-> "2"]>>

\* Input i has been through the loop body.
Processed(i) == i < f \/ (i = f /\ pc \in {"loop", "queries", "commit", "close"})
                      \/ status = "ok"

\* C15: in live mode a non-empty source gets its CREATE exactly once
\* unless --no-create is set (then never); an insert is issued only when
\* insertion is in effect and the table has rows, at most once per source,
\* with all its rows keyed by column name, and after the CREATE of that
\* source; an empty source gets neither.
C15_CreateThenInsert ==
    LET creates == Events("create")
        inserts == Events("insert")
        both    == SelectSeq(log, LAMBDA e : e.op \in {"create", "insert"})
    IN  /\ creates /= <<>>
           => /\ LiveRun
              /\ ~args.no_create
              /\ \A n \in DOMAIN creates :
                    /\ IsNonEmptySource(creates[n].src)
                    /\ n > 1 => creates[n - 1].src < creates[n].src
        /\ inserts /= <<>>
           => /\ LiveRun
              /\ do_insert
              /\ \A n \in DOMAIN inserts :
                    /\ inserts[n].src \in SourcesWithRows
                    /\ inserts[n].arg = RecordsOfA
                    /\ n > 1 => inserts[n - 1].src < inserts[n].src
              /\ ~args.no_create
                 => \A n \in DOMAIN both :
                       both[n].op = "insert"
                       => /\ n > 1
                          /\ both[n - 1] =
                                Event("create", both[n].src, TRUE, both[n - 1].arg)
        /\ (LiveRun /\ status \in {"running", "ok"})
           => \A i \in 1..N :
                 Processed(i)
                 => /\ (IsNonEmptySource(i) /\ ~args.no_create)
                       => \E n \in DOMAIN creates : creates[n].src = i
                    /\ (do_insert /\ i \in SourcesWithRows)
                       => \E n \in DOMAIN inserts : inserts[n].src = i

\* A successful inserting run over a.csv and the empty d/b.csv: a.csv was
\* created and then filled, d/b.csv got neither statement.
C15_Witness ==
    /\ status = "ok"
    /\ args.input_paths = <<PathA, PathB>>
    /\ do_insert
    /\ \E c \in CallsFor("create", 1) : \E k \in CallsFor("insert", 1) : c < k
    /\ CallsFor("create", 2) = {}
    /\ CallsFor("insert", 2) = {}

\* C16: statement text is written only when no connection is in effect
\* and none is open, result rows only when one is; no run writes both.
C16_SinksExclusive ==
    /\ (\E k \in DOMAIN output : IsDdl(output[k]))
       => /\ ~Truthy(connection_string)
          /\ connection = "none"
          /\ Calls("connect") = {}
          /\ \A k \in DOMAIN output : IsDdl(output[k])
    /\ (\E k \in DOMAIN output : IsRow(output[k]))
       => /\ Truthy(connection_string)
          /\ Calls("connect") /= {}
          /\ Calls("write_statement") = {}
          /\ \A k \in DOMAIN output : IsRow(output[k])
    /\ Calls("write_statement") /= {} => Calls("write_result") = {}
    /\ pc = "static" => connection = "none"

\* A successful live run that wrote a query result and no statement text.
C16_Witness ==
    /\ status = "ok"
    /\ Truthy(connection_string)
    /\ NonEmptySources /= {}
    /\ output = SelectOneOutput
    /\ Calls("create") /= {}

(***************************************************************************)
(* Closing of the inputs.                                                  *)
(***************************************************************************)
\* C17: each input is closed right after from_csv returns for it, before
\* any statement is rendered, created or inserted for it and before the
\* next input is read, also when it is skipped as empty; at the end of a
\* successful run every input has been closed exactly once.
C17_ClosedAfterRead ==
    LET closes == Events("close_input")
        loop   == SelectSeq(log, LAMBDA e : e.op \notin {"open_input", "connect"})
    IN  /\ closed = {input_files[i] : i \in 1..Len(closes)}
        /\ \A n \in DOMAIN closes : closes[n].src = n
        /\ loop /= <<>>
           => /\ loop[1].op = "resolve" /\ loop[1].src = 1
              /\ loop[Len(loop)].op = "read" => ~loop[Len(loop)].ok
        /\ \A n \in 2..Len(loop) :
              LET e == loop[n]
                  d == loop[n - 1]
              IN  /\ (d.op = "read" /\ d.ok) = (e.op = "close_input")
                  /\ d.op = "read" => d.src = e.src
                  /\ e.op = "read" => d.op = "resolve" /\ d.src = e.src
                  /\ e.op \in {"create", "write_statement"}
                     => d.op = "close_input" /\ d.src = e.src
                  /\ e.op = "insert"
                     => d.op \in {"close_input", "create"} /\ d.src = e.src
                  /\ e.op = "resolve"
                     => /\ d.src = e.src - 1
                        /\ d.op \in {"close_input", "create", "insert",
                                     "write_statement"}
        /\ pc \in {"live", "static"} => input_files[f] \in closed
        /\ status = "ok"
           => /\ Len(closes) = N
              /\ closed = {input_files[i] : i \in 1..N}

\* A successful run over the empty d/b.csv and then a.csv: the skipped
\* input was closed before a.csv was read, and both are closed at the end.
C17_Witness ==
    /\ status = "ok"
    /\ args.input_paths = <<PathB, PathA>>
    /\ \E c \in CallsFor("close_input", 1) : \E k \in CallsFor("read", 2) : c < k
    /\ closed = {input_files[1], input_files[2]}
    /\ Cardinality(closed) = 2

(***************************************************************************)
(* The result that is written.                                             *)
(***************************************************************************)
\* C18: the tabular output is that of the last executed statement only:
\* nothing when that statement returns no rows, even if an earlier one
\* did; otherwise its header and then its rows, written once.
C18_LastResultOnly ==
    LiveRun =>
    LET executed == Executed
        written  == Events("write_result")
    IN  /\ output \in {<<>>, SelectOneOutput}
        /\ written /= <<>> => QueriesDone
        /\ QueriesDone
           => IF executed /= <<>> /\ executed[Len(executed)].arg = <<"s">>
              THEN output = SelectOneOutput /\ Len(written) = 1
              ELSE output = <<>> /\ written = <<>>

\* A successful run of "s;u": the first statement returned rows, the last
\* did not, and nothing was written.
C18_Witness ==
    /\ status = "ok"
    /\ args.query = Some(<<"s", ";", "u">>)
    /\ Len(Executed) = 2
    /\ Executed[1].ok
    /\ output = <<>>

(***************************************************************************)
(* Options in combination.                                                 *)
(***************************************************************************)
\* C19: insertion is forced on only by a query without --db: a run with
\* --db and --query but without --insert creates its tables and executes
\* the query, and never issues an insert.
C19_InsertForcedOnlyWithoutDb ==
    /\ (Truthy(args.connection_string) /\ ~args.insert)
       => ~do_insert /\ Calls("insert") = {}
    /\ do_insert /= args.insert
       => /\ do_insert
          /\ Truthy(args.query)
          /\ ~Truthy(args.connection_string)
    /\ (pc \notin {"open_inputs", "parse"} /\ Truthy(args.query)
        /\ ~Truthy(args.connection_string))
       => do_insert
    /\ (status = "ok" /\ Truthy(args.connection_string) /\ Truthy(args.query)
        /\ ~args.insert)
       => /\ \A i \in NonEmptySources : CallsFor("create", i) /= {}
          /\ Len(Executed) = Len(QueryStatements(args.query.val))

\* A successful run with --db and --query, without --insert, over a.csv:
\* the table was created and the query executed, with no insert.
C19_Witness ==
    /\ status = "ok"
    /\ Truthy(args.connection_string)
    /\ Truthy(args.query)
    /\ ~args.insert
    /\ args.input_paths = <<PathA>>
    /\ Calls("create") /= {}
    /\ Calls("execute") /= {}
    /\ Calls("insert") = {}

\* C20: --dialect with a non-empty --query and no --db is rejected with a
\* ConfigurationError, as --dialect with --db is; --dialect passes the
\* validation only when neither --db nor a non-empty --query is given.
C20_DialectExcludesQuery ==
    /\ (Truthy(args.dialect)
        /\ (Truthy(args.query) \/ Truthy(args.connection_string)))
       => /\ RejectedOrNotYetValidated
          /\ Calls("connect") = {}
          /\ Calls("read") = {}
          /\ output = <<>>
    /\ (Truthy(args.dialect) /\ PastValidation)
       => /\ ~Truthy(args.query)
          /\ ~Truthy(args.connection_string)
          /\ ~Truthy(connection_string)
    /\ (Truthy(args.dialect) /\ status = "ConfigurationError"
        /\ ~Truthy(args.query) /\ ~Truthy(args.connection_string))
       => args.insert \/ args.no_create

\* A run with --dialect and a non-empty --query, without --db, --insert
\* and --no-create, that was rejected.
C20_Witness ==
    /\ status = "ConfigurationError"
    /\ Truthy(args.dialect)
    /\ Truthy(args.query)
    /\ ~Truthy(args.connection_string)
    /\ Truthy(connection_string)
    /\ ~args.insert
    /\ ~args.no_create

====
